---- MODULE Spec2Model ----
(***************************************************************************)
(* External sort + dedup (src/src/main.rs): split_into_chunks reads the    *)
(* input line by line, spills sorted chunks to temporary files, and        *)
(* merge_chunks merges the spill files through a min-heap, writing each    *)
(* line that differs from the last written one.                            *)
(*                                                                         *)
(* Files are byte sequences; a line is a byte sequence that keeps its      *)
(* trailing newline (read_until(b'\n')), the last line of a file possibly  *)
(* having none.  Every I/O call may fail; `?` turns the failure into the   *)
(* result "err", unwrap() into "panic".                                    *)
(***************************************************************************)
EXTENDS Integers, Sequences, FiniteSets, TLC

\* ---------------------------------------------------------------- bounds
MaxLen == 5
MaxChunk == 3
BufCap == 3

\* ----------------------------------------------------------------- bytes
NL == 10
Bytes == {10, 97, 98}

ByteSeqs(n) == UNION {[1..k -> Bytes] : k \in 0..n}

Min2(a, b) == IF a <= b THEN a ELSE b

\* Vec<u8> ordering: lexicographic over byte values, a proper prefix is less
LineLess(a, b) ==
    \E k \in 1..(Min2(Len(a), Len(b)) + 1) :
        /\ \A j \in 1..(k - 1) : a[j] = b[j]
        /\ \/ k > Len(a) /\ k <= Len(b)
           \/ k <= Len(a) /\ k <= Len(b) /\ a[k] < b[k]

LineLeq(a, b) == a = b \/ LineLess(a, b)

\* reader.read_until(b'\n', &mut line) on a reader that has consumed pos
\* bytes of `bytes`: the bytes up to and including the next newline, or up to
\* the end of the file; the empty sequence (0 bytes read) at end of file
ReadUntil(bytes, pos) ==
    LET nls == {i \in (pos + 1)..Len(bytes) : bytes[i] = NL}
        end == IF nls = {} THEN Len(bytes)
               ELSE CHOOSE i \in nls : \A j \in nls : i <= j
    IN SubSeq(bytes, pos + 1, end)

\* the lines a read_until loop yields from offset pos to the end of the file
RECURSIVE LinesFrom(_, _)
LinesFrom(bytes, pos) ==
    IF pos >= Len(bytes) THEN <<>>
    ELSE LET l == ReadUntil(bytes, pos)
         IN <<l>> \o LinesFrom(bytes, pos + Len(l))

Lines(bytes) == LinesFrom(bytes, 0)

\* file.write_all(&line) for each line in order: the concatenated bytes
RECURSIVE Flatten(_)
Flatten(ls) == IF ls = <<>> THEN <<>> ELSE Head(ls) \o Flatten(Tail(ls))

RECURSIVE Insert(_, _)
Insert(sorted, x) ==
    IF sorted = <<>> THEN <<x>>
    ELSE IF LineLeq(x, Head(sorted)) THEN <<x>> \o sorted
    ELSE <<Head(sorted)>> \o Insert(Tail(sorted), x)

\* buffer.par_sort_unstable_by(|a, b| a.cmp(b))
RECURSIVE SortLines(_)
SortLines(buf) ==
    IF buf = <<>> THEN <<>> ELSE Insert(SortLines(Tail(buf)), Head(buf))

Prefixes(s) == {SubSeq(s, 1, k) : k \in 0..Len(s)}

Range(s) == {s[i] : i \in 1..Len(s)}

\* ----------------------------------------------------------------- state
VARIABLES
    input,        \* bytes of the file args.input
    chunk_size,   \* args.chunk_size
    pc,           \* position in main / split_into_chunks / merge_chunks
    result,       \* "running", "ok" (Ok(())), "err" (Err via ?), "panic" (unwrap)
    inPos,        \* bytes consumed by the input reader
    buffer,       \* split_into_chunks: buffer
    chunk_files,  \* spill files returned so far (indices into spill)
    spill,        \* the files under temp_dir: [bytes, exists]
    rdPos,        \* merge_chunks: bytes consumed by each reader
    primeIdx,     \* merge_chunks: index of the priming loop
    heap,         \* merge_chunks: set of HeapItem [line, index]
    last_written, \* Option<Line>: <<>> is None, <<l>> is Some(l)
    outExists,    \* the output file has been created
    outFile,      \* bytes of the output file on storage
    outBuf,       \* bytes pending in the BufWriter `out`
    written,      \* history: the lines passed to out.write_all so far
    delIdx,       \* merge_chunks: index of the delete loop
    delFailed,    \* history: spill files whose remove_file failed
    popped,       \* history: the HeapItems returned by heap.pop(), in order
    rdCount,      \* history: read_until calls that returned, per reader
    run,          \* 1: first run, 2: run on the output of the first,
                  \* 3: run on the same input with another chunk_size
    prevOut       \* output bytes of the first run (runs 2 and 3)

vars == <<input, chunk_size, pc, result, inPos, buffer, chunk_files, spill,
          rdPos, primeIdx, heap, last_written, outExists, outFile, outBuf,
          written, delIdx, delFailed, popped, rdCount, run, prevOut>>

splitVars == <<inPos, buffer, chunk_files, spill>>
histVars == <<popped, rdCount>>
mergeVars == <<rdPos, primeIdx, heap, last_written, delIdx, delFailed,
               histVars>>
outVars == <<outExists, outFile, outBuf, written>>
argVars == <<input, chunk_size, run, prevOut>>

Init ==
    /\ input \in ByteSeqs(MaxLen)
    /\ chunk_size \in 0..MaxChunk
    /\ pc = "create_dir"
    /\ result = "running"
    /\ inPos = 0
    /\ buffer = <<>>
    /\ chunk_files = <<>>
    /\ spill = <<>>
    /\ rdPos = <<>>
    /\ primeIdx = 1
    /\ heap = {}
    /\ last_written = <<>>
    /\ outExists = FALSE
    /\ outFile = <<>>
    /\ outBuf = <<>>
    /\ written = <<>>
    /\ delIdx = 1
    /\ delFailed = {}
    /\ popped = <<>>
    /\ rdCount = <<>>
    /\ run = 1
    /\ prevOut = <<>>

\* the run is at position p and has not ended
At(p) == pc = p /\ result = "running"

\* the run ends with a failure where it stands
Fail(how) ==
    /\ pc' = pc
    /\ result' = how

\* ------------------------------------------------------------------ main
\* fs::create_dir_all(&args.temp_dir)?
CreateTempDir ==
    /\ At("create_dir")
    /\ pc' = "open_input"
    /\ UNCHANGED <<result, argVars, splitVars, mergeVars, outVars>>

CreateTempDirFail ==
    /\ At("create_dir")
    /\ Fail("err")
    /\ UNCHANGED <<argVars, splitVars, mergeVars, outVars>>

\* ----------------------------------------------------- split_into_chunks
\* a run that creates the output file while it opens the input
OpenInputCreatesOutput ==
    /\ At("open_input")
    /\ pc' = "read_input"
    /\ outExists' = TRUE
    /\ UNCHANGED <<result, argVars, splitVars, mergeVars, outFile, outBuf,
                   written>>

\* File::open(&args.input)?
OpenInput ==
    /\ At("open_input")
    /\ pc' = "read_input"
    /\ UNCHANGED <<result, argVars, splitVars, mergeVars, outVars>>

OpenInputFail ==
    /\ At("open_input")
    /\ Fail("err")
    /\ UNCHANGED <<argVars, splitVars, mergeVars, outVars>>

\* buffer.len() >= args.chunk_size
BufferFull(buf, cap) == Len(buf) >= cap

\* one turn of the while loop: a line was read and pushed
ReadLine ==
    /\ At("read_input")
    /\ LET line == ReadUntil(input, inPos)
       IN /\ Len(line) > 0
          /\ buffer' = Append(buffer, line)
          /\ inPos' = inPos + Len(line)
          /\ pc' = IF BufferFull(buffer', chunk_size)
                   THEN "spill_full" ELSE "read_input"
    /\ UNCHANGED <<result, argVars, chunk_files, spill, mergeVars, outVars>>

\* the end-of-input spill without the is_empty test
SpillAtEndAlways(buf) == TRUE

\* buffer.is_empty() negated: a last, partly filled chunk is spilled
SpillAtEnd(buf) == buf # <<>>

\* read_until returned 0: the loop ends
ReadEof ==
    /\ At("read_input")
    /\ Len(ReadUntil(input, inPos)) = 0
    /\ pc' = IF SpillAtEnd(buffer) THEN "spill_final" ELSE "open_readers"
    /\ UNCHANGED <<result, argVars, splitVars, mergeVars, outVars>>

\* read_until(..)? fails
ReadLineFail ==
    /\ At("read_input")
    /\ Fail("err")
    /\ UNCHANGED <<argVars, splitVars, mergeVars, outVars>>

\* write_sorted_chunk that iterates over the buffer without draining it
WriteSortedChunkNoDrain(next) ==
    /\ spill' = Append(spill, [bytes |-> Flatten(SortLines(buffer)),
                               exists |-> TRUE])
    /\ chunk_files' = Append(chunk_files, Len(spill) + 1)
    /\ buffer' = buffer
    /\ pc' = next
    /\ UNCHANGED <<result, argVars, inPos, mergeVars, outVars>>

\* write_sorted_chunk succeeded: the sorted lines are on storage under a
\* fresh name, the buffer is drained, the path is pushed to chunk_files
WriteSortedChunk(next) ==
    /\ spill' = Append(spill, [bytes |-> Flatten(SortLines(buffer)),
                               exists |-> TRUE])
    /\ chunk_files' = Append(chunk_files, Len(spill) + 1)
    /\ buffer' = <<>>
    /\ pc' = next
    /\ UNCHANGED <<result, argVars, inPos, mergeVars, outVars>>

SpillFull ==
    /\ At("spill_full")
    /\ WriteSortedChunk("read_input")

SpillFinal ==
    /\ At("spill_final")
    /\ WriteSortedChunk("open_readers")

\* File::create(&file_path)? fails: nothing is created
SpillCreateFail ==
    /\ At("spill_full") \/ At("spill_final")
    /\ Fail("err")
    /\ UNCHANGED <<argVars, splitVars, mergeVars, outVars>>

\* write_all or flush fails: the file exists with some prefix of the bytes
\* (the BufWriter retries its pending bytes when dropped), its path is not
\* returned, and drain(..) has emptied the buffer
SpillWriteFail ==
    /\ At("spill_full") \/ At("spill_final")
    /\ \E p \in Prefixes(Flatten(SortLines(buffer))) :
           spill' = Append(spill, [bytes |-> p, exists |-> TRUE])
    /\ buffer' = <<>>
    /\ Fail("err")
    /\ UNCHANGED <<argVars, inPos, chunk_files, mergeVars, outVars>>

\* ---------------------------------------------------------- BufWriter out
\* BufWriter::write_all with a buffer of BufCap bytes: a line shorter than the
\* spare capacity is buffered; otherwise the pending bytes are flushed first
\* when the line does not fit, and a line of at least BufCap bytes goes
\* straight to the file
BufNeedsFlush(buf, line) == Len(line) > BufCap - Len(buf)
BufDirect(buf, line) == Len(line) >= BufCap - Len(buf) /\ Len(line) >= BufCap

BufWriteAll(file, buf, line) ==
    LET f1 == IF BufNeedsFlush(buf, line) THEN file \o buf ELSE file
        b1 == IF BufNeedsFlush(buf, line) THEN <<>> ELSE buf
    IN IF BufDirect(buf, line)
       THEN [file |-> f1 \o line, buf |-> b1]
       ELSE [file |-> f1, buf |-> b1 \o line]

\* the file contents a failing write_all followed by the drop of `out` can
\* leave: the flush of the pending bytes stopped somewhere, or the flush went
\* through and the direct write of the line stopped somewhere
BufWriteFailFiles(file, buf, line) ==
    (IF BufNeedsFlush(buf, line) /\ buf # <<>>
     THEN {file \o p : p \in Prefixes(buf)} ELSE {})
    \cup
    (IF BufDirect(buf, line)
     THEN {file \o buf \o p : p \in Prefixes(line) \ {line}} ELSE {})

\* drop of `out` on an error or panic path: the pending bytes are flushed as
\* far as the storage accepts them, errors ignored
DropOut(file, buf) == {file \o p : p \in Prefixes(buf)}

\* ---------------------------------------------------------- merge_chunks
\* chunk_files.iter().map(|p| BufReader::new(File::open(p).unwrap()))
OpenReaders ==
    /\ At("open_readers")
    /\ rdPos' = [i \in 1..Len(chunk_files) |-> 0]
    /\ primeIdx' = 1
    /\ pc' = "prime"
    /\ UNCHANGED <<result, argVars, splitVars, heap, last_written, delIdx,
                   delFailed, outVars>>
    /\ rdCount' = [i \in 1..Len(chunk_files) |-> 0]
    /\ UNCHANGED popped

OpenReadersFail ==
    /\ At("open_readers")
    /\ chunk_files # <<>>
    /\ Fail("panic")
    /\ UNCHANGED <<argVars, splitVars, mergeVars, outVars>>

\* the bytes of the spill file behind reader i
ReaderBytes(i) == spill[chunk_files[i]].bytes

\* a push that does not test the number of bytes read
PushedAlways(h, line, i) == h \cup {[line |-> line, index |-> i]}

\* heap.push(HeapItem { line, index }) when read_until returned > 0
Pushed(h, line, i) ==
    IF Len(line) > 0 THEN h \cup {[line |-> line, index |-> i]} ELSE h

\* one turn of the priming loop
Prime ==
    /\ At("prime")
    /\ primeIdx <= Len(chunk_files)
    /\ LET line == ReadUntil(ReaderBytes(primeIdx), rdPos[primeIdx])
       IN /\ rdPos' = [rdPos EXCEPT ![primeIdx] = @ + Len(line)]
          /\ heap' = Pushed(heap, line, primeIdx)
    /\ primeIdx' = primeIdx + 1
    /\ UNCHANGED <<pc, result, argVars, splitVars, last_written, delIdx,
                   delFailed, outVars>>
    /\ rdCount' = [rdCount EXCEPT ![primeIdx] = @ + 1]
    /\ UNCHANGED popped

\* read_until(..).unwrap() panics in the priming loop
PrimeFail ==
    /\ At("prime")
    /\ primeIdx <= Len(chunk_files)
    /\ Fail("panic")
    /\ UNCHANGED <<argVars, splitVars, mergeVars, outVars>>

PrimeDone ==
    /\ At("prime")
    /\ primeIdx > Len(chunk_files)
    /\ pc' = "create_output"
    /\ UNCHANGED <<result, argVars, splitVars, mergeVars, outVars>>

\* BufWriter::new(File::create(output)?): the file is created or truncated
CreateOutput ==
    /\ At("create_output")
    /\ outExists' = TRUE
    /\ outFile' = <<>>
    /\ outBuf' = <<>>
    /\ last_written' = <<>>
    /\ pc' = "merge"
    /\ UNCHANGED <<result, argVars, splitVars, rdPos, primeIdx, heap, delIdx,
                   delFailed, written>>
    /\ UNCHANGED histVars

CreateOutputFail ==
    /\ At("create_output")
    /\ Fail("err")
    /\ UNCHANGED <<argVars, splitVars, mergeVars, outVars>>

\* impl Ord for HeapItem: self < other iff other.line < self.line
ItemLess(x, y) == LineLess(y.line, x.line)

\* heap.pop(): a greatest item of the BinaryHeap, ties in any order
IsTop(h, e) == e \in h /\ \A o \in h : ~ItemLess(e, o)

\* last_written.as_ref().map_or(true, |prev| *prev != line)
NeedsWrite(last, line) == IF last = <<>> THEN TRUE ELSE last[1] # line

\* the BufWriter after the write step of one loop turn
AfterWrite(line) ==
    IF NeedsWrite(last_written, line)
    THEN BufWriteAll(outFile, outBuf, line)
    ELSE [file |-> outFile, buf |-> outBuf]

\* a merge loop that looks at the top item without removing it
MergeStepPeek ==
    /\ At("merge")
    /\ \E e \in heap :
        /\ IsTop(heap, e)
        /\ LET o == AfterWrite(e.line)
               next == ReadUntil(ReaderBytes(e.index), rdPos[e.index])
           IN /\ outFile' = o.file
              /\ outBuf' = o.buf
              /\ written' = IF NeedsWrite(last_written, e.line)
                            THEN Append(written, e.line) ELSE written
              /\ last_written' = IF NeedsWrite(last_written, e.line)
                                 THEN <<e.line>> ELSE last_written
              /\ rdPos' = [rdPos EXCEPT ![e.index] = @ + Len(next)]
              /\ heap' = Pushed(heap, next, e.index)
              /\ popped' = Append(popped, e)
              /\ rdCount' = [rdCount EXCEPT ![e.index] = @ + 1]
    /\ UNCHANGED <<pc, result, argVars, splitVars, primeIdx, delIdx, delFailed,
                   outExists>>

\* one turn of the merge loop: pop, write unless equal to the last written
\* line, read the next line of the same reader and push it
MergeStep ==
    /\ At("merge")
    /\ \E e \in heap :
        /\ IsTop(heap, e)
        /\ LET o == AfterWrite(e.line)
               next == ReadUntil(ReaderBytes(e.index), rdPos[e.index])
           IN /\ outFile' = o.file
              /\ outBuf' = o.buf
              /\ written' = IF NeedsWrite(last_written, e.line)
                            THEN Append(written, e.line) ELSE written
              /\ last_written' = IF NeedsWrite(last_written, e.line)
                                 THEN <<e.line>> ELSE last_written
              /\ rdPos' = [rdPos EXCEPT ![e.index] = @ + Len(next)]
              /\ heap' = Pushed(heap \ {e}, next, e.index)
              /\ popped' = Append(popped, e)
              /\ rdCount' = [rdCount EXCEPT ![e.index] = @ + 1]
    /\ UNCHANGED <<pc, result, argVars, splitVars, primeIdx, delIdx, delFailed,
                   outExists>>

\* out.write_all(&line)? fails: Err is returned, `out` is dropped
MergeWriteFail ==
    /\ At("merge")
    /\ \E e \in heap :
        /\ IsTop(heap, e)
        /\ NeedsWrite(last_written, e.line)
        /\ outFile' \in BufWriteFailFiles(outFile, outBuf, e.line)
        /\ heap' = heap \ {e}
        /\ popped' = Append(popped, e)
    /\ outBuf' = <<>>
    /\ Fail("err")
    /\ UNCHANGED <<argVars, splitVars, rdPos, primeIdx, last_written, delIdx,
                   delFailed, outExists, written>>
    /\ UNCHANGED rdCount

\* readers[index].read_until(..).unwrap() panics after the write step
MergeReadFail ==
    /\ At("merge")
    /\ \E e \in heap :
        /\ IsTop(heap, e)
        /\ LET o == AfterWrite(e.line)
           IN outFile' \in DropOut(o.file, o.buf)
        /\ written' = IF NeedsWrite(last_written, e.line)
                      THEN Append(written, e.line) ELSE written
        /\ last_written' = IF NeedsWrite(last_written, e.line)
                           THEN <<e.line>> ELSE last_written
        /\ heap' = heap \ {e}
        /\ popped' = Append(popped, e)
    /\ outBuf' = <<>>
    /\ Fail("panic")
    /\ UNCHANGED <<argVars, splitVars, rdPos, primeIdx, delIdx, delFailed,
                   outExists>>
    /\ UNCHANGED rdCount

\* a merge loop that also stops as soon as some reader is exhausted
MergeDoneEarly ==
    /\ At("merge")
    /\ heap = {} \/ Cardinality(heap) < Len(chunk_files)
    /\ pc' = "delete"
    /\ delIdx' = 1
    /\ UNCHANGED <<result, argVars, splitVars, rdPos, primeIdx, heap,
                   last_written, delFailed, outVars>>
    /\ UNCHANGED histVars

\* heap.pop() returned None
MergeDone ==
    /\ At("merge")
    /\ heap = {}
    /\ pc' = "delete"
    /\ delIdx' = 1
    /\ UNCHANGED <<result, argVars, splitVars, rdPos, primeIdx, heap,
                   last_written, delFailed, outVars>>
    /\ UNCHANGED histVars

\* a delete loop that walks the paths without removing the files
DeleteChunkSkips ==
    /\ At("delete")
    /\ delIdx <= Len(chunk_files)
    /\ delIdx' = delIdx + 1
    /\ UNCHANGED <<pc, result, argVars, splitVars, rdPos, primeIdx, heap,
                   last_written, delFailed, outVars>>
    /\ UNCHANGED histVars

\* let _ = fs::remove_file(f): the file is removed
DeleteChunk ==
    /\ At("delete")
    /\ delIdx <= Len(chunk_files)
    /\ spill' = [spill EXCEPT ![chunk_files[delIdx]].exists = FALSE]
    /\ delIdx' = delIdx + 1
    /\ UNCHANGED <<pc, result, argVars, inPos, buffer, chunk_files, rdPos,
                   primeIdx, heap, last_written, delFailed, outVars>>
    /\ UNCHANGED histVars

\* a delete loop that propagates the error of remove_file
DeleteChunkFailFatal ==
    /\ At("delete")
    /\ delIdx <= Len(chunk_files)
    /\ delFailed' = delFailed \cup {chunk_files[delIdx]}
    /\ outFile' \in DropOut(outFile, outBuf)
    /\ outBuf' = <<>>
    /\ Fail("err")
    /\ UNCHANGED <<argVars, splitVars, rdPos, primeIdx, heap, last_written,
                   delIdx, outExists, written>>
    /\ UNCHANGED histVars

\* let _ = fs::remove_file(f): the removal fails and the error is dropped
DeleteChunkFail ==
    /\ At("delete")
    /\ delIdx <= Len(chunk_files)
    /\ delFailed' = delFailed \cup {chunk_files[delIdx]}
    /\ delIdx' = delIdx + 1
    /\ UNCHANGED <<pc, result, argVars, splitVars, rdPos, primeIdx, heap,
                   last_written, outVars>>
    /\ UNCHANGED histVars

DeleteDone ==
    /\ At("delete")
    /\ delIdx > Len(chunk_files)
    /\ pc' = "flush"
    /\ UNCHANGED <<result, argVars, splitVars, mergeVars, outVars>>

\* out.flush()?; Ok(())
FlushOutput ==
    /\ At("flush")
    /\ outFile' = outFile \o outBuf
    /\ outBuf' = <<>>
    /\ pc' = "done"
    /\ result' = "ok"
    /\ UNCHANGED <<argVars, splitVars, mergeVars, outExists, written>>

\* out.flush()? fails (only a write of pending bytes can fail)
FlushOutputFail ==
    /\ At("flush")
    /\ outBuf # <<>>
    /\ outFile' \in DropOut(outFile, outBuf)
    /\ outBuf' = <<>>
    /\ Fail("err")
    /\ UNCHANGED <<argVars, splitVars, mergeVars, outExists, written>>

\* the program is run again, with the output of the first run as its input,
\* a fresh temp_dir and a fresh output path
Rerun ==
    /\ pc = "done"
    /\ result = "ok"
    /\ run = 1
    /\ run' = 2
    /\ input' = outFile
    /\ prevOut' = outFile
    /\ pc' = "create_dir"
    /\ result' = "running"
    /\ inPos' = 0
    /\ buffer' = <<>>
    /\ chunk_files' = <<>>
    /\ spill' = <<>>
    /\ rdPos' = <<>>
    /\ primeIdx' = 1
    /\ heap' = {}
    /\ last_written' = <<>>
    /\ outExists' = FALSE
    /\ outFile' = <<>>
    /\ outBuf' = <<>>
    /\ written' = <<>>
    /\ delIdx' = 1
    /\ delFailed' = {}
    /\ popped' = <<>>
    /\ rdCount' = <<>>
    /\ UNCHANGED chunk_size

\* the program is run again on the same input with another chunk_size, a
\* fresh temp_dir and a fresh output path
RerunOtherChunk ==
    /\ pc = "done"
    /\ result = "ok"
    /\ run = 1
    /\ run' = 3
    /\ input' = input
    /\ prevOut' = outFile
    /\ pc' = "create_dir"
    /\ result' = "running"
    /\ inPos' = 0
    /\ buffer' = <<>>
    /\ chunk_files' = <<>>
    /\ spill' = <<>>
    /\ rdPos' = <<>>
    /\ primeIdx' = 1
    /\ heap' = {}
    /\ last_written' = <<>>
    /\ outExists' = FALSE
    /\ outFile' = <<>>
    /\ outBuf' = <<>>
    /\ written' = <<>>
    /\ delIdx' = 1
    /\ delFailed' = {}
    /\ popped' = <<>>
    /\ rdCount' = <<>>
    /\ chunk_size' \in (0..MaxChunk) \ {chunk_size}

Next ==
    \/ CreateTempDir \/ CreateTempDirFail
    \/ OpenInput \/ OpenInputFail
    \/ ReadLine \/ ReadEof \/ ReadLineFail
    \/ SpillFull \/ SpillFinal \/ SpillCreateFail \/ SpillWriteFail
    \/ OpenReaders \/ OpenReadersFail
    \/ Prime \/ PrimeFail \/ PrimeDone
    \/ CreateOutput \/ CreateOutputFail
    \/ MergeStep \/ MergeWriteFail \/ MergeReadFail \/ MergeDone
    \/ DeleteChunk \/ DeleteChunkFail \/ DeleteDone
    \/ FlushOutput \/ FlushOutputFail
    \/ Rerun \/ RerunOtherChunk

Spec == Init /\ [][Next]_vars

\* the merge loop is sequential code: while the run has not failed, the next
\* turn of the loop, or its exit, is taken
FairSpec == Spec /\ WF_vars(MergeStep) /\ WF_vars(MergeDone)

TypeOK ==
    /\ pc \in {"create_dir", "open_input", "read_input", "spill_full",
               "spill_final", "open_readers", "prime", "create_output",
               "merge", "delete", "flush", "done"}
    /\ result \in {"running", "ok", "err", "panic"}
    /\ (pc = "done") = (result = "ok")
    /\ Len(buffer) <= IF chunk_size = 0 THEN 1 ELSE chunk_size

\* ================================================================ claims
InputLines == Lines(input)

Ended == result # "running"

StrictlySorted(ls) == \A i \in 1..(Len(ls) - 1) : LineLess(ls[i], ls[i + 1])

Occurrences(ls, l) == Cardinality({i \in 1..Len(ls) : ls[i] = l})

\* C1 (sortedness): with chunk_size >= 1, in every state the lines written to
\* the output so far are strictly increasing in byte-lexicographic order.
C1_Sortedness == chunk_size >= 1 => StrictlySorted(written)

\* C2 (set equivalence): with chunk_size >= 1, after a run that returned Ok
\* the set of lines written to the output equals the set of lines read from
\* the input.
C2_SetEquivalence ==
    (chunk_size >= 1 /\ result = "ok") => Range(written) = Range(InputLines)

\* C3 (duplicates across chunks): with chunk_size >= 1, after a run that
\* returned Ok every line value of the input has been written exactly once,
\* so the number of lines written is the number of distinct input lines.
C3_EachLineOnce ==
    (chunk_size >= 1 /\ result = "ok") =>
        /\ \A l \in Range(InputLines) : Occurrences(written, l) = 1
        /\ Len(written) = Cardinality(Range(InputLines))

\* C4 (idempotence): with chunk_size >= 1, the run on the output bytes of a
\* first run ends with an output that is byte-identical to its input.
C4_Idempotence ==
    (chunk_size >= 1 /\ run = 2 /\ result = "ok") => outFile = prevOut

\* position past split_into_chunks: chunk_files is the returned vector
SplitDone == pc \in {"open_readers", "prime", "create_output", "merge",
                     "delete", "flush", "done"}

ChunkPhase == pc \in {"open_input", "read_input", "spill_full", "spill_final"}

MergePhase == pc \in {"open_readers", "prime", "create_output", "merge",
                      "delete", "flush"}

\* ls with every line equal to its predecessor removed
RECURSIVE DedupAdjacent(_)
DedupAdjacent(ls) ==
    IF Len(ls) <= 1 THEN ls
    ELSE IF ls[1] = ls[2] THEN DedupAdjacent(Tail(ls))
    ELSE <<ls[1]>> \o DedupAdjacent(Tail(ls))

C6_EmptyInput ==
    input = <<>> =>
        /\ spill = <<>>
        /\ chunk_files = <<>>
        /\ heap = {}
        /\ written = <<>>
        /\ outFile = <<>> /\ outBuf = <<>>
        /\ result # "panic"
        /\ pc \in {"merge", "delete", "flush"} => result = "running"

C6_Witness ==
    input = <<>> /\ run = 1 /\ result = "ok" /\ outExists /\ outFile = <<>>

\* C7 (no partial success): with chunk_size >= 1, a run that ends either
\* reports a failure or returns Ok with an output file whose lines are
\* strictly increasing and are exactly the lines of the input.
C7_NoPartialSuccess ==
    (chunk_size >= 1 /\ Ended) =>
        \/ result \in {"err", "panic"}
        \/ /\ result = "ok"
           /\ StrictlySorted(Lines(outFile))
           /\ Range(Lines(outFile)) = Range(InputLines)

\* C8 (merge failures): a run that has ended inside merge_chunks has ended
\* with Err returned to the caller, and after that no line is read or
\* written any more.
C8_MergeFailureAborts ==
    /\ []((MergePhase /\ Ended) => result = "err")
    /\ [][(MergePhase /\ Ended) =>
            UNCHANGED <<written, rdPos, heap, outFile, outBuf>>]_vars

\* C9 (failure while chunking): a run that has ended inside
\* split_into_chunks has ended with Err, and the output file was never
\* created, truncated or written.
C9_NoOutputOnChunkFailure ==
    ChunkPhase =>
        /\ ~outExists
        /\ outFile = <<>> /\ outBuf = <<>>
        /\ written = <<>>
        /\ Ended => result = "err"

C9_Witness ==
    /\ pc = "read_input"
    /\ result = "err"
    /\ Len(chunk_files) >= 2
    /\ ~outExists

Leftover(i) == spill[i].exists /\ i \notin delFailed

\* C10 as stated (spill files never outlive the run): when the run has ended,
\* with success or failure, every spill file created is gone, apart from
\* those whose removal failed.
C10_AllDeletedAtEnd ==
    Ended => \A i \in 1..Len(spill) : ~Leftover(i)

\* C10 amended: a run that has ended after the merge loop ran to completion
\* (with Ok, or with Err from the final flush) has removed every spill file
\* created, apart from those whose removal failed; before the delete loop no
\* spill file is removed, so a run that fails while chunking or merging
\* leaves every spill file it created on storage.
C10_DeletedAfterMergeOnly ==
    /\ (Ended /\ pc \in {"flush", "done"}) =>
           \A i \in 1..Len(spill) : ~Leftover(i)
    /\ pc \notin {"delete", "flush", "done"} =>
           \A i \in 1..Len(spill) : spill[i].exists

C10_Witness ==
    /\ result = "err"
    /\ pc = "flush"
    /\ Len(spill) >= 2
    /\ \A i \in 1..Len(spill) : ~spill[i].exists

\* C11 (deletion failure is not fatal): a remove_file that fails changes
\* neither the bytes written to the output nor the result of the run, it only
\* leaves that spill file on storage; the delete loop never ends the run.
C11_DeleteFailureNonFatal ==
    /\ [](\A i \in delFailed : spill[i].exists)
    /\ [](pc = "delete" => result = "running")
    /\ [][(run' = run /\ delFailed' # delFailed) =>
            /\ UNCHANGED <<outFile, outBuf, written, result, spill>>
            /\ delIdx' = delIdx + 1]_vars

C11_Witness ==
    /\ result = "ok"
    /\ delFailed # {}
    /\ outFile # <<>>
    /\ outFile = Flatten(written)

\* C12 (flush, then delete): in every state in which some spill file has been
\* removed, every line written so far has been flushed to the output file.
C12_FlushBeforeDelete ==
    (\E i \in 1..Len(spill) : ~spill[i].exists) =>
        outBuf = <<>> /\ outFile = Flatten(written)

\* C13 (frontier): in every state the heap holds at most one item per
\* reader, so never more items than spill files, and the item of a reader is
\* the line that reader read last: a next line is pushed only once the
\* previous item of that reader has been popped.
C13_Frontier ==
    /\ \A e1, e2 \in heap : e1.index = e2.index => e1 = e2
    /\ Cardinality(heap) <= Len(chunk_files)
    /\ \A e \in heap :
         /\ e.index \in 1..Len(rdPos)
         /\ Len(e.line) <= rdPos[e.index]
         /\ e.line = SubSeq(ReaderBytes(e.index),
                            rdPos[e.index] - Len(e.line) + 1, rdPos[e.index])

C13_Witness ==
    /\ pc = "merge"
    /\ popped # <<>>
    /\ Cardinality(heap) >= 2
    /\ Cardinality(heap) = Len(chunk_files)

\* the lines not yet popped: the lines held in the heap and the lines the
\* readers have not read yet
Remaining ==
    {e.line : e \in heap} \cup
    UNION {Range(LinesFrom(ReaderBytes(i), rdPos[i])) : i \in 1..Len(rdPos)}

\* C14 (global-minimum pop): every popped line is a minimum of all lines not
\* popped before it, in the heap or still unread in a spill file; hence the
\* popped lines are in non-decreasing order.
C14_GlobalMinimumPop ==
    /\ popped # <<>> =>
           \A l \in Remaining : LineLeq(popped[Len(popped)].line, l)
    /\ \A k \in 1..(Len(popped) - 1) :
           LineLeq(popped[k].line, popped[k + 1].line)

\* the state of reader i: 0 not read yet (unopened, or opened and not yet
\* primed), 1 open with its line pending in the heap, 2 open and exhausted,
\* 3 closed (merge_chunks has returned or unwound, or was never entered)
ReaderRank(i) ==
    IF Ended THEN 3
    ELSE IF ~SplitDone \/ pc = "open_readers"
            \/ (pc = "prime" /\ i >= primeIdx) THEN 0
    ELSE IF \E e \in heap : e.index = i THEN 1
    ELSE 2

\* the number of items of reader i popped so far
Pops(i) == Cardinality({k \in 1..Len(popped) : popped[k].index = i})

\* 1 once the priming loop has passed reader i
Primed(i) == IF pc = "prime" /\ i >= primeIdx THEN 0 ELSE 1

\* C15 (reader state machine): a reader only moves forward through unread,
\* pending, exhausted, closed; it is read once in the priming loop and then
\* once after each pop of its own item, and never again after a read has
\* returned 0 bytes.
C15_ReaderStateMachine ==
    /\ [][run' = run =>
            \A i \in 1..Len(chunk_files) : ReaderRank(i)' >= ReaderRank(i)]_vars
    /\ [](\A i \in 1..Len(rdCount) :
            /\ rdCount[i] <= Len(Lines(ReaderBytes(i))) + 1
            /\ rdCount[i] <= Primed(i) + Pops(i)
            /\ result = "running" => rdCount[i] = Primed(i) + Pops(i)
            /\ ReaderRank(i) = 1 => rdCount[i] <= Len(Lines(ReaderBytes(i)))
            /\ ReaderRank(i) = 2 =>
                 /\ rdCount[i] = Len(Lines(ReaderBytes(i))) + 1
                 /\ rdPos[i] = Len(ReaderBytes(i)))

C15_Witness ==
    /\ pc = "merge"
    /\ result = "running"
    /\ \E i, j \in 1..Len(rdCount) :
         /\ ReaderRank(i) = 2 /\ rdCount[i] >= 3
         /\ ReaderRank(j) = 1 /\ rdCount[j] >= 2

\* the lines of the items popped from reader i, in pop order
RECURSIVE PoppedOf(_, _)
PoppedOf(ps, i) ==
    IF ps = <<>> THEN <<>>
    ELSE IF Head(ps).index = i THEN <<Head(ps).line>> \o PoppedOf(Tail(ps), i)
    ELSE PoppedOf(Tail(ps), i)

RECURSIVE SumLines(_)
SumLines(n) ==
    IF n = 0 THEN 0 ELSE Len(Lines(ReaderBytes(n))) + SumLines(n - 1)

\* C16 (merge termination): unless an I/O call fails, the merge loop, once
\* entered, is eventually left; it is left only with an empty heap and every
\* reader at the end of its file, and by then every line of every spill file
\* has been popped exactly once.
C16_MergeTerminates ==
    /\ [](pc \in {"delete", "flush", "done"} =>
            /\ heap = {}
            /\ \A i \in 1..Len(chunk_files) :
                 /\ rdPos[i] = Len(ReaderBytes(i))
                 /\ PoppedOf(popped, i) = Lines(ReaderBytes(i))
            /\ Len(popped) = SumLines(Len(chunk_files)))
    /\ At("merge") ~> (pc = "delete" \/ Ended)

C16_Witness ==
    /\ pc = "delete"
    /\ Len(chunk_files) >= 2
    /\ Len(popped) >= 3
    /\ Len(written) < Len(popped)

NonDecreasing(ls) == \A i \in 1..(Len(ls) - 1) : LineLeq(ls[i], ls[i + 1])

\* the lines a reader gets from the k-th spill file returned
UnitLines(k) == Lines(spill[chunk_files[k]].bytes)

\* C17 (spill-unit invariant): with chunk_size >= 1, every spill file returned
\* by write_sorted_chunk holds at most chunk_size lines, in non-decreasing
\* order; the buffer never holds more than chunk_size lines, holds fewer when
\* the next line is read, and is empty once chunking is over.
C17_SpillUnitInvariant ==
    chunk_size >= 1 =>
        /\ \A k \in 1..Len(chunk_files) :
             /\ NonDecreasing(UnitLines(k))
             /\ Len(UnitLines(k)) <= chunk_size
        /\ Len(buffer) <= chunk_size
        /\ pc = "read_input" => Len(buffer) < chunk_size
        /\ SplitDone => buffer = <<>>

SameMultiset(a, b) ==
    \A l \in Range(a) \cup Range(b) : Occurrences(a, l) = Occurrences(b, l)

\* the lines of the first n spill files returned, one file after the other
RECURSIVE UnitLinesUpTo(_)
UnitLinesUpTo(n) ==
    IF n = 0 THEN <<>> ELSE UnitLinesUpTo(n - 1) \o UnitLines(n)

\* C18 (chunking partitions the input): with chunk_size c >= 1 and n input
\* lines, split_into_chunks returns ceil(n / c) spill files in creation
\* order, none empty, the k-th holding a permutation of input lines
\* (k-1)*c+1 .. min(k*c, n); all of them together hold the multiset of the
\* input lines.
C18_ChunkingPartitions ==
    (chunk_size >= 1 /\ SplitDone) =>
        LET n == Len(InputLines)
            c == chunk_size
        IN /\ Len(chunk_files) = (n + c - 1) \div c
           /\ Len(spill) = Len(chunk_files)
           /\ \A k \in 1..Len(chunk_files) :
                /\ chunk_files[k] = k
                /\ UnitLines(k) # <<>>
                /\ SameMultiset(UnitLines(k),
                                SubSeq(InputLines, (k - 1) * c + 1,
                                       Min2(k * c, n)))
           /\ SameMultiset(UnitLinesUpTo(Len(chunk_files)), InputLines)

\* C19 (output independent of chunking): a run on the same input with another
\* chunk_size, 0 included, ends with an output file byte-identical to that of
\* the first run, whatever the order of pops among equal lines.
C19_ChunkingIndependence ==
    (run = 3 /\ result = "ok") => outFile = prevOut

====
